---- MODULE Spec2Model ----
(***************************************************************************)
(* A model of srtxlate: the SRT translation driver of app/srtxlate.py.     *)
(*                                                                         *)
(* A Python str is a sequence of characters; a character is a one-element  *)
(* TLA+ string, or a name for a character that has no plain spelling:      *)
(* "LF" (\n), "CR" (\r), "TAB" (\t), "BOM" (U+FEFF), "uuml" (u-umlaut),    *)
(* "aring" (a-ring), "ACUTE" (U+0301, combining acute), "eacute".          *)
(***************************************************************************)
EXTENDS Integers, Sequences, FiniteSets, TLC

\* ------------------------------------------------------------------------
\* Characters and the str methods the code uses
\* ------------------------------------------------------------------------
Digit == {"0", "1", "2", "3", "4", "5", "6", "7", "8", "9"}

LowerAscii ==
    {"a", "b", "c", "d", "e", "f", "g", "h", "i", "j", "k", "l", "m",
     "n", "o", "p", "q", "r", "s", "t", "u", "v", "w", "x", "y", "z"}

UpperAscii ==
    {"A", "B", "C", "D", "E", "F", "G", "H", "I", "J", "K", "L", "M",
     "N", "O", "P", "Q", "R", "S", "T", "U", "V", "W", "X", "Y", "Z"}

\* str.isspace(): what str.strip() and str.split() treat as white space
Whitespace == {" ", "LF", "CR", "TAB"}

\* str.isalpha(), on the characters of the model
Alpha == LowerAscii \cup UpperAscii \cup {"uuml", "aring", "eacute"}

Min(a, b) == IF a < b THEN a ELSE b

Max(a, b) == IF a > b THEN a ELSE b

\* s[i:j] of Python, for 0 <= i, with 0-based bounds
Slice(s, i, j) == SubSeq(s, i + 1, Min(j, Len(s)))

\* s[i:] of Python
From(s, i) == SubSeq(s, i + 1, Len(s))

\* the least element of a non-empty set of integers
Least(S) == CHOOSE x \in S : \A y \in S : x <= y

\* the greatest element of a non-empty set of integers
Greatest(S) == CHOOSE x \in S : \A y \in S : x >= y

\* s.lstrip(chars), s.rstrip(chars) for a set of characters
LStripSet(s, chars) ==
    LET keep == {k \in 1..Len(s) : s[k] \notin chars}
    IN  IF keep = {} THEN <<>> ELSE SubSeq(s, Least(keep), Len(s))

RStripSet(s, chars) ==
    LET keep == {k \in 1..Len(s) : s[k] \notin chars}
    IN  IF keep = {} THEN <<>> ELSE SubSeq(s, 1, Greatest(keep))

lstrip(s) == LStripSet(s, Whitespace)

rstrip(s) == RStripSet(s, Whitespace)

strip(s) == rstrip(lstrip(s))

\* whether key occurs in s at 0-based offset i
StartsAt(s, key, i) ==
    /\ i + Len(key) <= Len(s)
    /\ \A k \in 1..Len(key) : s[i + k] = key[k]

\* s.find(key, i): the first offset >= i where key occurs, or -1
find(s, key, i) ==
    LET hits == {p \in i..(Len(s) - Len(key)) : StartsAt(s, key, p)}
    IN  IF hits = {} THEN -1 ELSE Least(hits)

\* s.rfind(key, 0, j): the last offset where key occurs inside s[0:j], or -1
rfind(s, key, j) ==
    LET hits == {p \in 0..(Min(j, Len(s)) - Len(key)) : StartsAt(s, key, p)}
    IN  IF hits = {} THEN -1 ELSE Greatest(hits)

Contains(s, key) == find(s, key, 0) # -1

\* s.replace(key, val): every non-overlapping occurrence, left to right
RECURSIVE replace(_, _, _)
replace(s, key, val) ==
    LET p == find(s, key, 0)
    IN  IF key = <<>> \/ p = -1 THEN s
        ELSE SubSeq(s, 1, p) \o val \o replace(From(s, p + Len(key)), key, val)

\* s.split(sep): the pieces between the occurrences of sep (always >= 1 piece)
RECURSIVE split(_, _)
split(s, sep) ==
    LET p == find(s, sep, 0)
    IN  IF p = -1 THEN <<s>>
        ELSE <<SubSeq(s, 1, p)>> \o split(From(s, p + Len(sep)), sep)

\* sep.join(parts)
RECURSIVE join(_, _)
join(sep, parts) ==
    IF parts = <<>> THEN <<>>
    ELSE IF Len(parts) = 1 THEN parts[1]
    ELSE parts[1] \o sep \o join(sep, Tail(parts))

\* s.split(): the maximal runs of non-white-space characters
RECURSIVE words(_)
words(s) ==
    LET t == lstrip(s)
        spaces == {k \in 1..Len(t) : t[k] \in Whitespace}
        wordEnd == IF spaces = {} THEN Len(t) ELSE Least(spaces) - 1
    IN  IF t = <<>> THEN <<>>
        ELSE <<SubSeq(t, 1, wordEnd)>> \o words(From(t, wordEnd))

\* [f(x) for x in s if keep(x)] with keep = "is not empty"
RECURSIVE NonEmpty(_)
NonEmpty(parts) ==
    IF parts = <<>> THEN <<>>
    ELSE (IF parts[1] # <<>> THEN <<parts[1]>> ELSE <<>>) \o NonEmpty(Tail(parts))

\* str(n) for n >= 0
RECURSIVE Decimal(_)
Decimal(n) ==
    LET d == CHOOSE c \in Digit :
                 c = <<"0", "1", "2", "3", "4", "5", "6", "7", "8", "9">>[(n % 10) + 1]
    IN  IF n < 10 THEN <<d>> ELSE Decimal(n \div 10) \o <<d>>

\* ------------------------------------------------------------------------
\* Unicode helpers
\* ------------------------------------------------------------------------
\* unicodedata.normalize("NFC", s or ""): the one composition the model's
\* characters allow, e + combining acute -> e-acute
_nfc(s) == replace(s, <<"e", "ACUTE">>, <<"eacute">>)

\* line.lstrip(BOM)
_strip_bom(line) == LStripSet(line, {"BOM"})

\* ------------------------------------------------------------------------
\* Tag protection
\* ------------------------------------------------------------------------
\* _TAG_RE = <[^>]+> tried at 0-based offset i: the offset just past the match,
\* or -1 when the pattern does not match there
TagEndAt(s, i) ==
    LET close == find(s, <<">">>, i + 1)
    IN  IF i < Len(s) /\ s[i + 1] = "<" /\ close > i + 1 THEN close + 1 ELSE -1

\* the offset of the leftmost match of _TAG_RE at or after i, or -1
TagSearch(s, i) ==
    LET hits == {p \in i..(Len(s) - 1) : TagEndAt(s, p) # -1}
    IN  IF hits = {} THEN -1 ELSE Least(hits)

\* a placeholder without the number of the tag
TagKeyNoNumber(n) == <<"_", "_", "T", "A", "G", "_", "_">>

\* the placeholder of the n-th tag, f"__TAG{n}__"
TagKey(n) == <<"_", "_", "T", "A", "G">> \o Decimal(n) \o <<"_", "_">>

\* _TAG_RE.sub(_replace, text) with the tags found so far; the dict is the
\* sequence of its (key, value) pairs in insertion order
RECURSIVE ProtectFrom(_, _)
ProtectFrom(s, tags) ==
    LET p == TagSearch(s, 0)
        e == TagEndAt(s, p)
        key == TagKey(Len(tags))
        rest == ProtectFrom(From(s, e), Append(tags, <<key, Slice(s, p, e)>>))
    IN  IF p = -1 THEN [text |-> s, tags |-> tags]
        ELSE [text |-> SubSeq(s, 1, p) \o key \o rest.text, tags |-> rest.tags]

_protect_tags(text) == ProtectFrom(text, <<>>)

RECURSIVE _restore_tags(_, _)
_restore_tags(text, tags) ==
    IF tags = <<>> THEN text
    ELSE _restore_tags(replace(text, tags[1][1], tags[1][2]), Tail(tags))

\* _TAG_RE.sub("", line)
RECURSIVE RemoveTags(_)
RemoveTags(s) ==
    LET p == TagSearch(s, 0)
    IN  IF p = -1 THEN s
        ELSE SubSeq(s, 1, p) \o RemoveTags(From(s, TagEndAt(s, p)))

\* ------------------------------------------------------------------------
\* SRT split/join
\* ------------------------------------------------------------------------
\* \d{2}:\d{2}:\d{2},\d{3} at offset i
StampAt(s, i) ==
    /\ i + 12 <= Len(s)
    /\ \A k \in {1, 2, 4, 5, 7, 8, 10, 11, 12} : s[i + k] \in Digit
    /\ s[i + 3] = ":" /\ s[i + 6] = ":" /\ s[i + 9] = ","

\* \s* from offset i: the offset of the first character that is not white space
SkipSpace(s, i) ==
    LET stops == {p \in i..(Len(s) - 1) : s[p + 1] \notin Whitespace}
    IN  IF stops = {} THEN Max(i, Len(s)) ELSE Least(stops)

\* _TIME_RE matched at offset i
TimeAt(s, i) ==
    /\ StampAt(s, i)
    /\ LET a == SkipSpace(s, i + 12)
       IN  /\ StartsAt(s, <<"-", "-", ">">>, a)
           /\ StampAt(s, SkipSpace(s, a + 3))

_is_index_line(line) ==
    /\ strip(line) # <<>>
    /\ \A k \in 1..Len(strip(line)) : strip(line)[k] \in Digit

_is_time_line(line) == \E i \in 0..Len(line) : TimeAt(line, i)

\* re.split(r"\n{2,}", s)
RECURSIVE SplitBlankLines(_)
SplitBlankLines(s) ==
    LET p == find(s, <<"LF", "LF">>, 0)
        stops == {k \in p..(Len(s) - 1) : s[k + 1] # "LF"}
        runEnd == IF stops = {} THEN Len(s) ELSE Least(stops)
    IN  IF p = -1 THEN <<s>>
        ELSE <<SubSeq(s, 1, p)>> \o SplitBlankLines(From(s, runEnd))

\* the loop of _split_srt over the chunks, with the blocks kept so far
RECURSIVE SplitChunks(_, _)
SplitChunks(chunks, blocks) ==
    IF chunks = <<>> THEN blocks
    ELSE LET lines == split(chunks[1], <<"LF">>)
             first == [lines EXCEPT ![1] = _strip_bom(lines[1])]
         IN  IF strip(chunks[1]) = <<>> THEN SplitChunks(Tail(chunks), blocks)
             ELSE SplitChunks(Tail(chunks),
                              Append(blocks, IF blocks = <<>> THEN first ELSE lines))

_split_srt(s) ==
    IF s = <<>> THEN <<>>
    ELSE LET normalized == replace(replace(s, <<"CR", "LF">>, <<"LF">>),
                                   <<"CR">>, <<"LF">>)
         IN  SplitChunks(SplitBlankLines(normalized), <<>>)

_join_srt(blocks) ==
    join(<<"LF", "LF">>, [b \in 1..Len(blocks) |-> join(<<"LF">>, blocks[b])])
        \o <<"LF">>

\* ------------------------------------------------------------------------
\* Heuristics for ALL-CAPS sound/stage lines
\* ------------------------------------------------------------------------
\* the characters _ALLCAPS_RE excludes: a-z and the listed accented letters
AllcapsExcluded == LowerAscii \cup {"aring", "eacute"}

MarkerMaxLen == 40

_is_allcaps_marker(line) ==
    LET txt == strip(RemoveTags(line))
    IN  /\ Len(txt) # 0
        /\ Len(txt) <= MarkerMaxLen
        /\ \A k \in 1..Len(txt) : txt[k] \notin AllcapsExcluded
        /\ \E k \in 1..Len(txt) : txt[k] \in Alpha

\* ------------------------------------------------------------------------
\* Reflow helpers
\* ------------------------------------------------------------------------
\* re.split(r"\r?\n", text)
SplitLines(text) == split(replace(text, <<"CR", "LF">>, <<"LF">>), <<"LF">>)

\* [p.strip() for p in parts]
StripAll(parts) == [k \in 1..Len(parts) |-> strip(parts[k])]

\* round(a / n) of Python 3 for a >= 0, n >= 1: halves go to the even neighbour
Round(a, n) ==
    LET q == a \div n
        r == a % n
    IN  IF 2 * r < n THEN q
        ELSE IF 2 * r > n THEN q + 1
        ELSE IF q % 2 = 0 THEN q ELSE q + 1

\* a loop that looks for a space to the left of the target first
RECURSIVE ReflowLoopLeftFirst(_, _, _, _, _, _)
ReflowLoopLeftFirst(text, n, target_lengths, i, start, out) ==
    LET remaining == lstrip(From(text, start))
        cut_target == Min(Len(remaining), Max(1, target_lengths[i + 1]))
        r == find(remaining, <<" ">>, cut_target)
        l == rfind(remaining, <<" ">>, cut_target)
        best == IF l # -1 THEN l ELSE IF r # -1 THEN r ELSE cut_target
        left == rstrip(Slice(remaining, 0, best))
        moved == start + Len(Slice(remaining, 0, best))
        next == IF moved < Len(text) /\ text[moved + 1] = " "
                THEN moved + 1 ELSE moved
    IN  IF i >= n THEN out
        ELSE IF i = n - 1 THEN Append(out, remaining)
        ELSE ReflowLoopLeftFirst(text, n, target_lengths, i + 1, next, Append(out, left))

\* the for loop of _split_to_n_lines_preserving_words from iteration i on
\* (i is 0-based, start is the offset into text, out the lines made so far)
RECURSIVE ReflowLoop(_, _, _, _, _, _)
ReflowLoop(text, n, target_lengths, i, start, out) ==
    LET remaining == lstrip(From(text, start))
        cut_target == Min(Len(remaining), Max(1, target_lengths[i + 1]))
        r == find(remaining, <<" ">>, cut_target)
        l == rfind(remaining, <<" ">>, cut_target)
        best == IF r # -1 THEN r ELSE IF l # -1 THEN l ELSE cut_target
        left == rstrip(Slice(remaining, 0, best))
        moved == start + Len(Slice(remaining, 0, best))
        next == IF moved < Len(text) /\ text[moved + 1] = " "
                THEN moved + 1 ELSE moved
    IN  IF i >= n THEN out
        ELSE IF i = n - 1 THEN Append(out, remaining)
        ELSE ReflowLoop(text, n, target_lengths, i + 1, next, Append(out, left))

\* target_lengths is <<>> for None
_split_to_n_lines_preserving_words(text0, n, target_lengths0) ==
    LET text == join(<<" ">>, words(replace(text0, <<"LF">>, <<" ">>)))
        parts == NonEmpty(StripAll(SplitLines(text)))
        total_len == Max(1, Len(text))
        target_lengths ==
            IF target_lengths0 = <<>> \/ Len(target_lengths0) # n
            THEN [k \in 1..n |-> Round(total_len, n)]
            ELSE target_lengths0
        out == ReflowLoop(text, n, target_lengths, 0, 0, <<>>)
        padded == out \o [k \in 1..(n - Len(out)) |-> <<>>]
    IN  IF n <= 1 THEN <<text>>
        ELSE IF Len(parts) = n THEN parts
        ELSE SubSeq(padded, 1, n)

\* ------------------------------------------------------------------------
\* Translation driver: grouping (the loop over the blocks)
\* ------------------------------------------------------------------------
_SENTINEL == <<"_", "_", "N", "L", "_", "_">>

\* f" {_SENTINEL} ".join(block[k] for k in run); run holds 0-based line indexes
Merged(block, run) ==
    join(<<" ">> \o _SENTINEL \o <<" ">>, [k \in 1..Len(run) |-> block[run[k] + 1]])

\* a test for text lines that forgets the blank lines
IsTextLineNoBlank(line) ==
    /\ ~_is_index_line(line)
    /\ ~_is_time_line(line)

\* the 0-based indexes of the lines of block that are text: not an index line,
\* not a time line, not blank
IsTextLine(line) ==
    /\ ~_is_index_line(line)
    /\ ~_is_time_line(line)
    /\ strip(line) # <<>>

RECURSIVE TextIdxs(_, _)
TextIdxs(block, li) ==
    IF li >= Len(block) THEN <<>>
    ELSE (IF IsTextLine(block[li + 1]) THEN <<li>> ELSE <<>>) \o TextIdxs(block, li + 1)

\* a loop that emits a marker without flushing the run before it
RECURSIVE RunLoopNoFlush(_, _, _, _, _)
RunLoopNoFlush(block, bi, idxs, run, g) ==
    LET li == idxs[1]
        flushed == IF run # <<>>
                   THEN [groups |-> Append(g.groups, Merged(block, run)),
                         placements |-> Append(g.placements, <<bi, run>>)]
                   ELSE g
    IN  IF idxs = <<>> THEN flushed
        ELSE IF _is_allcaps_marker(block[li + 1])
        THEN RunLoopNoFlush(block, bi, Tail(idxs), run,
                            [groups |-> Append(g.groups, block[li + 1]),
                             placements |-> Append(g.placements, <<bi, <<li>>>>)])
        ELSE RunLoopNoFlush(block, bi, Tail(idxs), Append(run, li), g)

\* the loop over text_idxs of one block and the flush after it; g is the pair
\* [groups, placements] built so far, run the current run
RECURSIVE RunLoop(_, _, _, _, _)
RunLoop(block, bi, idxs, run, g) ==
    LET li == idxs[1]
        flushed == IF run # <<>>
                   THEN [groups |-> Append(g.groups, Merged(block, run)),
                         placements |-> Append(g.placements, <<bi, run>>)]
                   ELSE g
    IN  IF idxs = <<>> THEN flushed
        ELSE IF _is_allcaps_marker(block[li + 1])
        THEN RunLoop(block, bi, Tail(idxs), <<>>,
                     [groups |-> Append(flushed.groups, block[li + 1]),
                      placements |-> Append(flushed.placements, <<bi, <<li>>>>)])
        ELSE RunLoop(block, bi, Tail(idxs), Append(run, li), g)

\* the loop over the blocks from block bi on (0-based)
RECURSIVE GroupLoop(_, _, _)
GroupLoop(blocks, bi, g) ==
    IF bi >= Len(blocks) THEN g
    ELSE GroupLoop(blocks, bi + 1,
                   RunLoop(blocks[bi + 1], bi, TextIdxs(blocks[bi + 1], 0), <<>>, g))

\* block[0] = _strip_bom(block[0]) for the first block
StripFirst(blocks) ==
    IF blocks # <<>> /\ blocks[1] # <<>>
    THEN [blocks EXCEPT ![1][1] = _strip_bom(blocks[1][1])]
    ELSE blocks

BuildGroups(blocks) == GroupLoop(blocks, 0, [groups |-> <<>>, placements |-> <<>>])

\* ------------------------------------------------------------------------
\* Translation driver: placing the translated strings back
\* ------------------------------------------------------------------------
\* a split by the sentinel only, whatever the count it gives
RunPartsSentinelOnly(block, idxs, text) == StripAll(split(text, _SENTINEL))

\* the parts written to the lines of a run of n >= 2 lines
RunParts(block, idxs, text) ==
    LET parts == StripAll(split(text, _SENTINEL))
        nl_parts == NonEmpty(StripAll(SplitLines(text)))
        orig_lens == [k \in 1..Len(idxs) |-> Len(block[idxs[k] + 1])]
    IN  IF Len(parts) = Len(idxs) THEN parts
        ELSE IF Len(nl_parts) = Len(idxs) THEN nl_parts
        ELSE _split_to_n_lines_preserving_words(text, Len(idxs), orig_lens)

\* for li, part in zip(idxs, parts): block[li] = part
RECURSIVE Assign(_, _, _)
Assign(block, idxs, parts) ==
    IF idxs = <<>> \/ parts = <<>> THEN block
    ELSE Assign([block EXCEPT ![idxs[1] + 1] = parts[1]], Tail(idxs), Tail(parts))

\* a placement that takes the line indexes for 1-based
PlaceUnitOffByOne(blocks, bi, idxs, text0) ==
    LET text == _nfc(text0)
    IN  IF Len(idxs) = 1
        THEN [blocks EXCEPT ![bi + 1][idxs[1]] = strip(text)]
        ELSE [blocks EXCEPT ![bi + 1] =
                  Assign(blocks[bi + 1], [k \in 1..Len(idxs) |-> idxs[k] - 1],
                         RunParts(blocks[bi + 1], idxs, text))]

\* one iteration of the placement loop: unit (bi, idxs) receives text0
PlaceUnit(blocks, bi, idxs, text0) ==
    LET text == _nfc(text0)
    IN  IF Len(idxs) = 1
        THEN [blocks EXCEPT ![bi + 1][idxs[1] + 1] = strip(text)]
        ELSE [blocks EXCEPT ![bi + 1] =
                  Assign(blocks[bi + 1], idxs, RunParts(blocks[bi + 1], idxs, text))]

\* the placement loop from unit gi on (0-based); translated holds the strings
RECURSIVE PlaceLoop(_, _, _, _)
PlaceLoop(blocks, placements, translated, gi) ==
    IF gi >= Len(placements) THEN blocks
    ELSE PlaceLoop(PlaceUnit(blocks, placements[gi + 1][1], placements[gi + 1][2],
                             IF gi < Len(translated) THEN translated[gi + 1] ELSE <<>>),
                   placements, translated, gi + 1)

\* ------------------------------------------------------------------------
\* NLLB service call: what is prepared before sending
\* ------------------------------------------------------------------------
UpperSeq ==
    <<"A", "B", "C", "D", "E", "F", "G", "H", "I", "J", "K", "L", "M",
      "N", "O", "P", "Q", "R", "S", "T", "U", "V", "W", "X", "Y", "Z">>

LowerSeq ==
    <<"a", "b", "c", "d", "e", "f", "g", "h", "i", "j", "k", "l", "m",
      "n", "o", "p", "q", "r", "s", "t", "u", "v", "w", "x", "y", "z">>

\* c.lower()
ToLower(c) ==
    IF c \in UpperAscii
    THEN LowerSeq[CHOOSE k \in 1..26 : UpperSeq[k] = c]
    ELSE c

\* s.lower()
lower(s) == [k \in 1..Len(s) |-> ToLower(s[k])]

\* \w of the re module
WordChar == Alpha \cup Digit \cup {"_"}

\* \b at offset i of s
Boundary(s, i) ==
    (i > 0 /\ s[i] \in WordChar) # (i < Len(s) /\ s[i + 1] \in WordChar)

\* re.sub(rf"\b{re.escape(k)}\b", v, s, flags=re.IGNORECASE)
RECURSIVE GlossarySub(_, _, _, _)
GlossarySub(s, k, v, i) ==
    LET hits == {p \in i..(Len(s) - Len(k)) :
                    /\ lower(Slice(s, p, p + Len(k))) = k
                    /\ Boundary(s, p)
                    /\ Boundary(s, p + Len(k))}
        p == Least(hits)
    IN  IF hits = {} THEN s
        ELSE GlossarySub(SubSeq(s, 1, p) \o v \o From(s, p + Len(k)), k, v, p + Len(v))

\* the glossary of translate_srt_with_progress, in insertion order
glossary ==
    << <<(<<"r", "e", "m", "o", "v", "a", "l", " ", "m", "e", "n">>),
         (<<"m", "o", "v", "e", "r", "s">>)>>,
       <<(<<"r", "e", "m", "o", "v", "a", "l", "s", " ", "m", "e", "n">>),
         (<<"m", "o", "v", "e", "r", "s">>)>> >>

\* for k, v in glossary.items(): gtext = re.sub(...)
RECURSIVE ApplyGlossary(_, _)
ApplyGlossary(gtext, g) ==
    IF g = <<>> THEN gtext
    ELSE ApplyGlossary(GlossarySub(gtext, g[1][1], g[1][2], 0), Tail(g))

\* prepped[k]: the string sent for lines[k]
Prep(ln) == ApplyGlossary(_protect_tags(ln).text, glossary)

\* the last loop of _nllb_translate_batched:
\* zip(out_texts, protected_pairs), restore, normalize
RestoreAll(out_texts, lines) ==
    [k \in 1..Min(Len(out_texts), Len(lines)) |->
        [out_texts[k] EXCEPT
            !.text = _nfc(_restore_tags(out_texts[k].text, _protect_tags(lines[k]).tags))]]

\* ------------------------------------------------------------------------
\* The inputs of a job
\* ------------------------------------------------------------------------
\* the most cue blocks of an input document
MaxBlocks == 2

\* the most translation units of an input document
MaxUnits == 3

\* the largest batch_size
MaxBatch == 2

\* "00:00:01,000 --> 00:00:02,000"
TimeLine ==
    <<"0", "0", ":", "0", "0", ":", "0", "1", ",", "0", "0", "0", " ", "-", "-", ">",
      " ", "0", "0", ":", "0", "0", ":", "0", "2", ",", "0", "0", "0">>

\* the text lines of the cues documents are made of: one line of dialogue; two
\* lines of dialogue; dialogue, marker, dialogue; no text; markup and a
\* glossary entry; a blank line between an all-caps line and an accented one
CueTexts ==
    { <<(<<"H", "i">>)>>,
      <<(<<"G", "o", " ", "o", "n", ",">>), (<<"n", "o", "w", " ", "o", "k">>)>>,
      <<(<<"H", "i">>), (<<"[", "O", "K", "]">>), (<<"y", "o">>)>>,
      <<>>,
      <<(<<"<", "i", ">", "H", "i", "<", "/", "i", ">">>),
        (<<"R", "e", "m", "o", "v", "a", "l", " ", "m", "e", "n">>)>>,
      <<(<<"e", "ACUTE", "t", "e", "ACUTE">>), (<<" ">>), (<<"a", " ", "b", " ", "c">>),
        (<<"d", " ", "e">>)>> }

\* the text of cue number k with the given text lines
CueText(k, lines) ==
    join(<<"LF">>, <<Decimal(k), TimeLine>> \o lines)

\* a document: its cues separated by a blank line, one line break at the end
DocText(cues) ==
    join(<<"LF", "LF">>, [k \in 1..Len(cues) |-> CueText(k, cues[k])]) \o <<"LF">>

CueSeqs == UNION {[1..n -> CueTexts] : n \in 1..MaxBlocks}

\* the same document as a Windows editor saves it: a byte-order mark, CRLF
WithBomCrLf(text) == <<"BOM">> \o replace(text, <<"LF">>, <<"CR", "LF">>)

NumUnits(text) == Len(BuildGroups(StripFirst(_split_srt(text))).groups)

SrtInputs ==
    LET plain == {DocText(cues) : cues \in CueSeqs}
        all == plain \cup {WithBomCrLf(d) : d \in {DocText(<<c>>) : c \in CueTexts}}
    IN  {d \in all : NumUnits(d) <= MaxUnits}

\* the engine selectors: the four the service names, none, and one in capitals
Engines ==
    { <<"a", "u", "t", "o">>, <<"n", "l", "l", "b">>, <<"l", "i", "b", "r", "e">>,
      <<"a", "r", "g", "o", "s">>, <<>>, <<"N", "L", "L", "B">> }

\* what a backend may answer instead of a translation of a string
Garbage == { <<"x", "LF", "y", " ", "z">> }

\* the translatedText lists a backend may answer a batch with; batch starts at
\* unit i of the job. Each string carries where it comes from: the backend,
\* and the unit it was the answer for (-1: for none)
Echo(batch, be, i) ==
    [k \in 1..Len(batch) |-> [text |-> batch[k], by |-> be, of |-> i + k - 1]]

Replies(batch, be, i) ==
    { Echo(batch, be, i),
      SubSeq(Echo(batch, be, i), 1, Len(batch) - 1),
      Tail(Echo(batch, be, i)),
      <<>> }
    \cup { [k \in 1..Len(batch) |-> [text |-> g, by |-> be, of |-> i + k - 1]] :
             g \in Garbage }

\* ------------------------------------------------------------------------
\* The state of one call of translate_srt_with_progress
\* ------------------------------------------------------------------------
VARIABLES
    srt_text,     \* the argument: the document
    engine,       \* the argument: the engine selector
    batch_size,   \* the argument
    progress_cb,  \* whether a progress callback was given
    pc,           \* where the call is
    blocks,       \* the block list
    parsed,       \* the block list as it was after parsing
    groups,       \* the unit texts
    placements,   \* (block index, line indexes) of each unit
    i,            \* the offset of the next batch in the backend being tried
    done,         \* that backend's count of completed units
    out_texts,    \* that backend's results so far
    translated,   \* the results the driver holds
    failed,       \* the backends that raised
    events,       \* the callbacks made and the requests sent, in order
    result,       \* the document returned
    fn_arg,       \* the argument of a helper function called on its own
    fn_ret,       \* what the helper returned
    PROGRESS,     \* the progress store of the service: key -> entry
    progress_key, \* the progress key of the request to the translate endpoint
    reported      \* how many of the callbacks on_progress has been run for

vars == <<srt_text, engine, batch_size, progress_cb, pc, blocks, parsed, groups,
          placements, i, done, out_texts, translated, failed, events, result,
          fn_arg, fn_ret, PROGRESS, progress_key, reported>>

\* what no step of the driver changes: its arguments, the helper's variables
\* and the variables of the service
args == <<srt_text, engine, batch_size, progress_cb, fn_arg, fn_ret, PROGRESS,
          progress_key, reported>>

\* the variables of the driver
job == <<srt_text, engine, batch_size, progress_cb, pc, blocks, parsed, groups,
         placements, i, done, out_texts, translated, failed, events, result>>

NLLB == "nllb"

LIBRE == "libre"

ARGOS == "argos"

\* use_engine = (engine or "auto").lower()
use_engine == IF engine = <<>> THEN <<"a", "u", "t", "o">> ELSE lower(engine)

IsAuto == use_engine = <<"a", "u", "t", "o">>

IsNllb == use_engine = <<"n", "l", "l", "b">>

IsLibre == use_engine = <<"l", "i", "b", "r", "e">>

\* progress_cb(total, completed), called by backend be
Callback(ev, be, total, completed) ==
    IF progress_cb
    THEN Append(ev, [kind |-> "cb", be |-> be, a |-> total, b |-> completed, q |-> <<>>])
    ELSE ev

\* requests.post(.../translate, json={"q": batch, ...}) for the batch at offset off
Request(ev, be, off, batch) ==
    Append(ev, [kind |-> "req", be |-> be, a |-> off, b |-> Len(batch), q |-> batch])

total == Len(groups)

Init ==
    /\ srt_text \in SrtInputs
    /\ engine \in Engines
    /\ batch_size \in 1..MaxBatch
    /\ progress_cb \in BOOLEAN
    /\ pc = "start"
    /\ blocks = <<>>
    /\ parsed = <<>>
    /\ groups = <<>>
    /\ placements = <<>>
    /\ i = 0
    /\ done = 0
    /\ out_texts = <<>>
    /\ translated = <<>>
    /\ failed = {}
    /\ events = <<>>
    /\ result = <<>>
    /\ fn_arg = <<>>
    /\ fn_ret = <<>>
    /\ PROGRESS = <<>>
    /\ progress_key = ""
    /\ reported = 0

\* ------------------------------------------------------------------------
\* The steps of translate_srt_with_progress
\* ------------------------------------------------------------------------
\* split into blocks and build the groups; nothing to translate: return
Start ==
    /\ pc = "start"
    /\ LET b == StripFirst(_split_srt(srt_text))
           g == BuildGroups(b)
       IN  /\ blocks' = b
           /\ parsed' = _split_srt(srt_text)
           /\ groups' = g.groups
           /\ placements' = g.placements
           /\ IF g.groups = <<>>
              THEN pc' = "returned" /\ result' = _join_srt(b)
              ELSE pc' = "try_nllb" /\ UNCHANGED result
    /\ UNCHANGED <<args, i, done, out_texts, translated, failed, events>>

\* the string the NLLB call sends for each unit
prepped == [k \in 1..Len(groups) |-> Prep(groups[k])]

\* _nllb_translate_batched up to its first progress callback
NllbEnter ==
    /\ pc = "try_nllb"
    /\ IsNllb \/ IsAuto
    /\ i' = 0
    /\ done' = 0
    /\ out_texts' = <<>>
    /\ events' = Callback(events, NLLB, total, 0)
    /\ pc' = "nllb"
    /\ UNCHANGED <<args, blocks, parsed, groups, placements, translated, failed, result>>

\* the engine selector does not ask for NLLB
NllbSkip ==
    /\ pc = "try_nllb"
    /\ ~(IsNllb \/ IsAuto)
    /\ pc' = "try_libre"
    /\ UNCHANGED <<args, blocks, parsed, groups, placements, i, done, out_texts,
                   translated, failed, events, result>>

\* the results of a backend after another batch was answered
Extend(out, reply) == out \o reply

\* the count of completed units after a batch
Completed(n, d, batch) == Min(n, d + Len(batch))

\* one batch of the NLLB loop, answered
NllbBatch ==
    /\ pc = "nllb"
    /\ i < total
    /\ LET batch == Slice(prepped, i, i + batch_size)
       IN  \E reply \in Replies(batch, NLLB, i) :
               /\ out_texts' = Extend(out_texts, reply)
               /\ done' = Completed(total, done, batch)
               /\ events' = Callback(Request(events, NLLB, i, batch), NLLB, total,
                                     Completed(total, done, batch))
    /\ i' = i + Max(1, batch_size)
    /\ UNCHANGED <<args, pc, blocks, parsed, groups, placements, translated, failed,
                   result>>

\* a driver that keeps the outputs of the batches answered before the failure
AfterFailureKeep(out) == out

\* what the driver holds after backend be raised, when it goes on
AfterFailure(out) == <<>>

\* except clauses that swallow every failure, and that raise every failure
ReraiseNever(be) == FALSE

ReraiseAlways(be) == TRUE

\* the except clauses: whether the failure of backend be is raised again
Reraise(be) == (be = NLLB /\ IsNllb) \/ (be = LIBRE /\ IsLibre)

\* one batch of the NLLB loop: the request or its status raises
NllbFail ==
    /\ pc = "nllb"
    /\ i < total
    /\ events' = Request(events, NLLB, i, Slice(prepped, i, i + batch_size))
    /\ failed' = failed \cup {NLLB}
    /\ IF Reraise(NLLB)
       THEN pc' = "raised" /\ UNCHANGED translated
       ELSE pc' = "try_libre" /\ translated' = AfterFailure(out_texts)
    /\ UNCHANGED <<args, blocks, parsed, groups, placements, i, done, out_texts, result>>

\* the NLLB loop is over: restore the tags and return
NllbReturn ==
    /\ pc = "nllb"
    /\ i >= total
    /\ translated' = RestoreAll(out_texts, groups)
    /\ pc' = "try_libre"
    /\ UNCHANGED <<args, blocks, parsed, groups, placements, i, done, out_texts, failed,
                   events, result>>

\* _lt_translate_batched up to its first progress callback
LibreEnter ==
    /\ pc = "try_libre"
    /\ translated = <<>>
    /\ IsLibre \/ IsAuto
    /\ i' = 0
    /\ done' = 0
    /\ out_texts' = <<>>
    /\ events' = Callback(events, LIBRE, total, 0)
    /\ pc' = "libre"
    /\ UNCHANGED <<args, blocks, parsed, groups, placements, translated, failed, result>>

\* NLLB gave results, or the engine selector does not ask for LibreTranslate
LibreSkip ==
    /\ pc = "try_libre"
    /\ ~(translated = <<>> /\ (IsLibre \/ IsAuto))
    /\ pc' = "try_argos"
    /\ UNCHANGED <<args, blocks, parsed, groups, placements, i, done, out_texts,
                   translated, failed, events, result>>

\* one batch of the LibreTranslate loop, answered
LibreBatch ==
    /\ pc = "libre"
    /\ i < total
    /\ LET batch == Slice(groups, i, i + batch_size)
       IN  \E reply \in Replies(batch, LIBRE, i) :
               /\ out_texts' = Extend(out_texts, reply)
               /\ done' = Completed(total, done, batch)
               /\ events' = Callback(Request(events, LIBRE, i, batch), LIBRE, total,
                                     Completed(total, done, batch))
    /\ i' = i + Max(1, batch_size)
    /\ UNCHANGED <<args, pc, blocks, parsed, groups, placements, translated, failed,
                   result>>

\* one batch of the LibreTranslate loop: the request or its status raises
LibreFail ==
    /\ pc = "libre"
    /\ i < total
    /\ events' = Request(events, LIBRE, i, Slice(groups, i, i + batch_size))
    /\ failed' = failed \cup {LIBRE}
    /\ IF Reraise(LIBRE)
       THEN pc' = "raised" /\ UNCHANGED translated
       ELSE pc' = "try_argos" /\ translated' = AfterFailure(out_texts)
    /\ UNCHANGED <<args, blocks, parsed, groups, placements, i, done, out_texts, result>>

\* the LibreTranslate loop is over
LibreReturn ==
    /\ pc = "libre"
    /\ i >= total
    /\ translated' = out_texts
    /\ pc' = "try_argos"
    /\ UNCHANGED <<args, blocks, parsed, groups, placements, i, done, out_texts, failed,
                   events, result>>

\* what _argos_translate returns for the unit texts
ArgosLines(lines) ==
    [k \in 1..Len(lines) |-> [text |-> lines[k], by |-> ARGOS, of |-> k - 1]]

\* the last resort: _argos_translate, a pass-through
Argos ==
    /\ pc = "try_argos"
    /\ translated = <<>>
    /\ events' = Callback(events, ARGOS, Len(groups), Len(groups))
    /\ translated' = ArgosLines(groups)
    /\ pc' = "place"
    /\ UNCHANGED <<args, blocks, parsed, groups, placements, i, done, out_texts, failed,
                   result>>

\* a backend gave results: no last resort
ArgosSkip ==
    /\ pc = "try_argos"
    /\ translated # <<>>
    /\ pc' = "place"
    /\ UNCHANGED <<args, blocks, parsed, groups, placements, i, done, out_texts,
                   translated, failed, events, result>>

\* the strings of the results
Texts(res) == [k \in 1..Len(res) |-> res[k].text]

\* place the translated strings back and join the blocks
Place ==
    /\ pc = "place"
    /\ blocks' = PlaceLoop(blocks, placements, Texts(translated), 0)
    /\ result' = _join_srt(PlaceLoop(blocks, placements, Texts(translated), 0))
    /\ pc' = "returned"
    /\ UNCHANGED <<args, parsed, groups, placements, i, done, out_texts, translated,
                   failed, events>>

Next ==
    \/ Start
    \/ NllbEnter
    \/ NllbSkip
    \/ NllbBatch
    \/ NllbFail
    \/ NllbReturn
    \/ LibreEnter
    \/ LibreSkip
    \/ LibreBatch
    \/ LibreFail
    \/ LibreReturn
    \/ Argos
    \/ ArgosSkip
    \/ Place

Spec == Init /\ [][Next]_vars

\* ------------------------------------------------------------------------
\* Properties of the driver's progress reports and fallback (Spec)
\* ------------------------------------------------------------------------
IsCb(e) == e.kind = "cb"

IsReq(e) == e.kind = "req"

\* the progress callbacks made so far, and the requests sent so far
Cbs == SelectSeq(events, IsCb)

Reqs == SelectSeq(events, IsReq)

Finished == pc \in {"returned", "raised"}

\* C1: in a job with T >= 1 units that returns a document, the completed_units
\* values passed to the callback are non-decreasing, start at 0 and end at T
C1_ProgressMonotone ==
    (progress_cb /\ pc = "returned" /\ total >= 1) =>
        /\ Cbs # <<>>
        /\ Cbs[1].b = 0
        /\ Cbs[Len(Cbs)].b = total
        /\ \A k \in 1..(Len(Cbs) - 1) : Cbs[k].b <= Cbs[k + 1].b

\* C2: with units and a callback, the first thing a job does to the outside is
\* a callback reporting (T, 0): no request precedes it, whatever the engine
C2_FirstCallbackZero ==
    (progress_cb /\ total >= 1 /\ Finished) =>
        /\ events # <<>>
        /\ IsCb(events[1])
        /\ events[1].a = total
        /\ events[1].b = 0

\* the backend whose result string unit gi (0-based) receives; "none" when
\* the results are too short and the unit receives the empty string
WrittenBy(gi) == IF gi < Len(translated) THEN translated[gi + 1].by ELSE "none"

\* C3: in auto mode the backends are tried in the order NLLB, LibreTranslate,
\* pass-through; a backend that raised leaves none of its outputs in the
\* results, the backend tried after it is sent the units from unit 0 on, and
\* the strings written to the document all come from one backend
C3_OneBackendNoMix ==
    IsAuto =>
        /\ \A j, k \in 1..Len(events) :
               j < k => <<events[j].be, events[k].be>> \in
                            { <<NLLB, NLLB>>, <<NLLB, LIBRE>>, <<NLLB, ARGOS>>,
                              <<LIBRE, LIBRE>>, <<LIBRE, ARGOS>>, <<ARGOS, ARGOS>> }
        /\ Reqs # <<>> => Reqs[1].be = NLLB /\ Reqs[1].a = 0
        /\ \A k \in 2..Len(Reqs) :
               Reqs[k].be # Reqs[k - 1].be =>
                   /\ Reqs[k].a = 0
                   /\ Reqs[k].b = Min(batch_size, total)
        /\ (NLLB \in failed /\ pc \in {"try_argos", "place", "returned"}) =>
               \E k \in 1..Len(Reqs) : Reqs[k].be = LIBRE
        /\ pc \in {"place", "returned"} =>
               /\ \A gi \in 0..(total - 1) : WrittenBy(gi) \notin failed
               /\ \A g, h \in 0..(total - 1) :
                      WrittenBy(g) = WrittenBy(h) \/ "none" \in {WrittenBy(g), WrittenBy(h)}
               /\ failed = {NLLB, LIBRE} => \A gi \in 0..(total - 1) : WrittenBy(gi) = ARGOS

\* a backend raised on a batch after an earlier batch of it was answered and
\* reported, LibreTranslate took over, and the document was returned
C3_Witness ==
    /\ IsAuto
    /\ pc = "returned"
    /\ failed = {NLLB}
    /\ \E k \in 1..Len(Cbs) : Cbs[k].be = NLLB /\ Cbs[k].b >= 1
    /\ total >= 2
    /\ \A gi \in 0..(total - 1) : WrittenBy(gi) = LIBRE

\* the network backend the engine selector names, if it names one
Selected == IF IsNllb THEN {NLLB} ELSE IF IsLibre THEN {LIBRE} ELSE {}

\* C4: when the backend named by the engine selector fails on a batch, the
\* call raises: no document is returned and no other backend is invoked
C4_ExplicitFailureRaises ==
    \A be \in Selected :
        be \in failed =>
            /\ pc = "raised"
            /\ result = <<>>
            /\ \A k \in 1..Len(events) : events[k].be = be
            /\ translated = <<>>

\* the selected backend raised on a batch that was not its first
C4_Witness ==
    /\ IsLibre
    /\ LIBRE \in failed
    /\ pc = "raised"
    /\ \E k \in 1..Len(Reqs) : Reqs[k].a >= 1

\* C5: in auto mode no failure of a backend makes the job fail: the call never
\* raises, the document it returns comes with a last callback reporting
\* (T, T), and when both network backends failed the results are the unit
\* texts themselves
C5_AutoAlwaysCompletes ==
    IsAuto =>
        /\ pc # "raised"
        /\ pc = "returned" => result = _join_srt(blocks) /\ result # <<>>
        /\ (pc = "returned" /\ progress_cb /\ total >= 1) =>
               /\ Cbs # <<>>
               /\ Cbs[Len(Cbs)].a = total
               /\ Cbs[Len(Cbs)].b = total
        /\ (failed = {NLLB, LIBRE} /\ pc \in {"place", "returned"}) =>
               Texts(translated) = groups

\* both network backends failed, each after a first answered batch, and the
\* document was returned
C5_Witness ==
    /\ IsAuto
    /\ pc = "returned"
    /\ failed = {NLLB, LIBRE}
    /\ progress_cb
    /\ \E k \in 1..Len(Cbs) : Cbs[k].be = NLLB /\ Cbs[k].b >= 1
    /\ \E k \in 1..Len(Cbs) : Cbs[k].be = LIBRE /\ Cbs[k].b >= 1

\* ------------------------------------------------------------------------
\* Properties of the document structure (Spec)
\* ------------------------------------------------------------------------
Grouped == pc # "start"

\* grouping is done and no backend was called yet
JustGrouped == Grouped /\ events = <<>>

\* the positions (0-based block index, 0-based line index) of the block list
Positions(bs) == {<<bi, li>> \in (0..(Len(bs) - 1)) \X (0..8) : li < Len(bs[bi + 1])}

LineAt(bs, p) == bs[p[1] + 1][p[2] + 1]

\* the classes of a line, by its own content
IsIndex(line) == _is_index_line(line)

IsTimestamp(line) == ~_is_index_line(line) /\ _is_time_line(line)

IsBlank(line) == strip(line) = <<>>

IsText(line) == ~IsIndex(line) /\ ~IsTimestamp(line) /\ ~IsBlank(line)

\* the units (1-based) whose line-index list holds position p
UnitsOf(p) ==
    {k \in 1..Len(placements) :
        placements[k][1] = p[1] /\ \E n \in 1..Len(placements[k][2]) : placements[k][2][n] = p[2]}

\* how often line index li occurs in the line-index list of unit k
Occurrences(k, li) ==
    Cardinality({n \in 1..Len(placements[k][2]) : placements[k][2][n] = li})

\* C6: the block list keeps the shape it had after parsing: as many blocks, as
\* many lines in each, and every line that is an index, a timestamp or blank
\* keeps its content; only lines of a translation unit are written
C6_StructurePreserved ==
    Grouped =>
        /\ Len(blocks) = Len(parsed)
        /\ \A b \in 1..Len(parsed) : Len(blocks[b]) = Len(parsed[b])
        /\ \A p \in Positions(parsed) :
               (UnitsOf(p) = {} \/ ~IsText(LineAt(parsed, p))) =>
                   LineAt(blocks, p) = LineAt(parsed, p)

\* a document with index, timestamp and blank lines was returned with text
\* lines that differ from the parsed ones, after a backend answered garbage
C6_Witness ==
    /\ pc = "returned"
    /\ blocks # parsed
    /\ \E p \in Positions(parsed) : IsBlank(LineAt(parsed, p))
    /\ \E k \in 1..Len(translated) : translated[k].text \in Garbage
    /\ Len(translated) < total

\* the units partition the text lines of the parsed document
UnitCoverage ==
        /\ \A p \in Positions(parsed) :
               IF IsText(LineAt(parsed, p))
               THEN /\ Cardinality(UnitsOf(p)) = 1
                    /\ \A k \in UnitsOf(p) : Occurrences(k, p[2]) = 1
               ELSE UnitsOf(p) = {}
        /\ \A k \in 1..Len(placements) :
               \A n \in 1..Len(placements[k][2]) :
                   <<placements[k][1], placements[k][2][n]>> \in Positions(parsed)
        /\ Len(groups) = Len(placements)
        /\ \A k \in 1..Len(placements) :
               groups[k] = Merged(parsed[placements[k][1] + 1], placements[k][2])

\* C7: when grouping is done, before any backend is called, every text line
\* is in the line-index list of exactly one unit, once, and that unit is of
\* the line's block; no other line is in any unit; there are as many units as
\* placements and unit k is the text of the lines of placement k
C7_UnitCoverage == JustGrouped => UnitCoverage

\* a document with two cues, blank, index and timestamp lines, grouped into
\* units of one line and of several lines
C7_Witness ==
    /\ JustGrouped
    /\ Len(parsed) = 2
    /\ \E k \in 1..Len(placements) : Len(placements[k][2]) = 3
    /\ \E k \in 1..Len(placements) : Len(placements[k][2]) = 1 /\ placements[k][1] = 1
    /\ \E p \in Positions(parsed) : IsBlank(LineAt(parsed, p))

\* the 0-based indexes of the text lines of block bi (0-based)
TextLines(bi) == {li \in 0..(Len(parsed[bi + 1]) - 1) : IsText(parsed[bi + 1][li + 1])}

IsMarkerAt(bi, li) == _is_allcaps_marker(parsed[bi + 1][li + 1])

First(idxs) == idxs[1]

Last(idxs) == idxs[Len(idxs)]

\* marker lines are units of their own, the other units are maximal runs
MarkerIsolation ==
        /\ \A k \in 1..Len(placements) :
               LET bi == placements[k][1]
                   idxs == placements[k][2]
                   before == {li \in TextLines(bi) : li < First(idxs)}
                   after == {li \in TextLines(bi) : li > Last(idxs)}
               IN  \/ Len(idxs) = 1 /\ IsMarkerAt(bi, idxs[1])
                   \/ /\ \A n \in 1..Len(idxs) : ~IsMarkerAt(bi, idxs[n])
                      /\ \A n \in 1..(Len(idxs) - 1) : idxs[n] < idxs[n + 1]
                      /\ \A li \in TextLines(bi) :
                             (First(idxs) <= li /\ li <= Last(idxs)) =>
                                 \E n \in 1..Len(idxs) : idxs[n] = li
                      /\ before # {} => IsMarkerAt(bi, Greatest(before))
                      /\ after # {} => IsMarkerAt(bi, Least(after))
        /\ \A p \in Positions(parsed) :
               (IsText(LineAt(parsed, p)) /\ IsMarkerAt(p[1], p[2])) =>
                   \E k \in 1..Len(placements) : placements[k] = <<p[1], <<p[2]>>>>
        /\ \A k \in 1..(Len(placements) - 1) :
               \/ placements[k][1] < placements[k + 1][1]
               \/ /\ placements[k][1] = placements[k + 1][1]
                  /\ Last(placements[k][2]) < First(placements[k + 1][2])

\* C8: when grouping is done, before any backend is called, a marker line is a
\* unit of its own; every other unit is a maximal run of text lines without a
\* marker: it holds no marker, it holds every text line between its first and
\* its last, and the text lines next to it on either side are markers; the
\* units come in the order of their lines
C8_MarkerIsolation == JustGrouped => MarkerIsolation

\* a cue with the text lines dialogue, marker, dialogue gave three units
C8_Witness ==
    /\ JustGrouped
    /\ Len(placements) = 3
    /\ \A k \in 1..3 : placements[k][1] = 0 /\ Len(placements[k][2]) = 1
    /\ ~IsMarkerAt(0, placements[1][2][1])
    /\ IsMarkerAt(0, placements[2][2][1])
    /\ ~IsMarkerAt(0, placements[3][2][1])

\* ------------------------------------------------------------------------
\* The helper functions called on their own
\* ------------------------------------------------------------------------
\* the most fragments a text given to a helper is made of
MaxPieces == 3

RECURSIVE Concat(_)
Concat(parts) == IF parts = <<>> THEN <<>> ELSE parts[1] \o Concat(Tail(parts))

\* the texts made of at most MaxPieces of the given fragments
TextsOf(fragments) ==
    {Concat(ps) : ps \in UNION {[1..n -> fragments] : n \in 0..MaxPieces}}

\* no call of the driver is under way
Idle ==
    /\ srt_text = <<>>
    /\ engine = <<>>
    /\ batch_size = 1
    /\ progress_cb = FALSE
    /\ blocks = <<>>
    /\ parsed = <<>>
    /\ groups = <<>>
    /\ placements = <<>>
    /\ i = 0
    /\ done = 0
    /\ out_texts = <<>>
    /\ translated = <<>>
    /\ failed = {}
    /\ events = <<>>
    /\ result = <<>>
    /\ PROGRESS = <<>>
    /\ progress_key = ""
    /\ reported = 0

\* fragments of texts with markup: tags, loose angle brackets, plain text, and
\* the pieces of placeholders
TagFragments ==
    { <<"<", "i", ">">>, <<"<", "/", "i", ">">>, <<"x">>, <<"<">>, <<">">>,
      <<"_", "_">>, <<"T", "A", "G">>, <<"0">>, <<"1">>,
      <<"_", "_", "T", "A", "G", "0", "_", "_">> }

InitTags ==
    /\ Idle
    /\ pc = "call"
    /\ fn_arg \in TextsOf(TagFragments)
    /\ fn_ret = <<>>

\* protected_text, tags = _protect_tags(text)
Protect ==
    /\ pc = "call"
    /\ fn_ret' = _protect_tags(fn_arg)
    /\ pc' = "protected"
    /\ UNCHANGED <<srt_text, engine, batch_size, progress_cb, blocks, parsed, groups,
                   placements, i, done, out_texts, translated, failed, events, result,
                   fn_arg, PROGRESS, progress_key, reported>>

\* _restore_tags(protected_text, tags) on the protected text as it is
Restore ==
    /\ pc = "protected"
    /\ fn_ret' = _restore_tags(fn_ret.text, fn_ret.tags)
    /\ pc' = "restored"
    /\ UNCHANGED <<srt_text, engine, batch_size, progress_cb, blocks, parsed, groups,
                   placements, i, done, out_texts, translated, failed, events, result,
                   fn_arg, PROGRESS, progress_key, reported>>

NextTags == Protect \/ Restore

SpecTags == InitTags /\ [][NextTags]_vars

\* C9 as stated: for every input text, protecting the tags and restoring them
\* on the unchanged protected text gives the input text back
C9_RoundTrip == pc = "restored" => fn_ret = fn_arg

\* s holds the letters TAG with a decimal digit right after them
HasTagDigit(s) ==
    \E p \in 1..(Len(s) - 3) :
        s[p] = "T" /\ s[p + 1] = "A" /\ s[p + 2] = "G" /\ s[p + 3] \in Digit

\* C9 amended: for every input text that nowhere holds the letters TAG with a
\* decimal digit right after them, whatever the number of its markup spans,
\* protecting the tags and restoring them on the unchanged protected text
\* gives the input text back
C9_RoundTripNoToken == (pc = "restored" /\ ~HasTagDigit(fn_arg)) => fn_ret = fn_arg

\* a text with two different tags and underscores of its own was protected
\* and restored
C9_Witness ==
    /\ pc = "restored"
    /\ ~HasTagDigit(fn_arg)
    /\ Len(_protect_tags(fn_arg).tags) = 2
    /\ _protect_tags(fn_arg).tags[1][2] # _protect_tags(fn_arg).tags[2][2]
    /\ Contains(fn_arg, <<"_", "_">>)

\* fragments of translated texts: words, spaces, line breaks, the sentinel
ReflowFragments ==
    { <<"a">>, <<"b", "c", " ", "d">>, <<" ">>, <<"LF">>, <<"CR", "LF">>, _SENTINEL,
      <<"e", "ACUTE">> }

\* a cue with three text lines, and the runs of two or three of its lines
ReflowBlock ==
    <<(<<"1">>), TimeLine, (<<"G", "o", " ", "o", "n", ",">>),
      (<<"n", "o", "w", " ", "o", "k">>), (<<"y", "o">>)>>

ReflowRuns == { <<2, 3>>, <<3, 4>>, <<2, 3, 4>> }

InitReflow ==
    /\ Idle
    /\ pc = "call"
    /\ fn_arg \in [block : {ReflowBlock}, idxs : ReflowRuns, text : TextsOf(ReflowFragments)]
    /\ fn_ret = <<>>

\* the parts the placement loop computes for a run of several lines
SplitRun ==
    /\ pc = "call"
    /\ fn_ret' = [parts |-> RunParts(fn_arg.block, fn_arg.idxs, _nfc(fn_arg.text)),
                  blocks |-> <<>>]
    /\ pc' = "split"
    /\ UNCHANGED <<srt_text, engine, batch_size, progress_cb, blocks, parsed, groups,
                   placements, i, done, out_texts, translated, failed, events, result,
                   fn_arg, PROGRESS, progress_key, reported>>

\* one iteration of the placement loop for that run
AssignBack ==
    /\ pc = "split"
    /\ fn_ret' = [parts |-> fn_ret.parts,
                  blocks |-> PlaceUnit(<<fn_arg.block>>, 0, fn_arg.idxs, fn_arg.text)]
    /\ pc' = "placed"
    /\ UNCHANGED <<srt_text, engine, batch_size, progress_cb, blocks, parsed, groups,
                   placements, i, done, out_texts, translated, failed, events, result,
                   fn_arg, PROGRESS, progress_key, reported>>

NextReflow == SplitRun \/ AssignBack

SpecReflow == InitReflow /\ [][NextReflow]_vars

\* the characters of s that are not whitespace
Visible(s) == {p \in 1..Len(s) : s[p] \notin Whitespace}

\* C10: for a run of N >= 2 lines and any translated string, reassembly makes
\* exactly N strings and writes the n-th to the n-th line of the run, leaving
\* the other lines alone; a translated string that is empty or blank gives N
\* empty strings, and one with fewer than N visible characters gives as many
\* empty strings as it lacks
C10_ReassemblyCount ==
    LET N == Len(fn_arg.idxs)
        empties == {n \in 1..Len(fn_ret.parts) : fn_ret.parts[n] = <<>>}
    IN  /\ pc \in {"split", "placed"} =>
               /\ Len(fn_ret.parts) = N
               /\ strip(fn_arg.text) = <<>> => Cardinality(empties) = N
               /\ Cardinality(empties) >= N - Cardinality(Visible(fn_arg.text))
        /\ pc = "placed" =>
               /\ Len(fn_ret.blocks) = 1
               /\ Len(fn_ret.blocks[1]) = Len(fn_arg.block)
               /\ \A n \in 1..N : fn_ret.blocks[1][fn_arg.idxs[n] + 1] = fn_ret.parts[n]
               /\ \A li \in 0..(Len(fn_arg.block) - 1) :
                      (\A n \in 1..N : fn_arg.idxs[n] # li) =>
                          fn_ret.blocks[1][li + 1] = fn_arg.block[li + 1]

\* a run of three lines received a text with one sentinel and no line break:
\* neither split fits, and the lines were placed
C10_Witness ==
    /\ pc = "placed"
    /\ Len(fn_arg.idxs) = 3
    /\ Len(split(fn_arg.text, _SENTINEL)) = 2
    /\ ~Contains(fn_arg.text, <<"LF">>)
    /\ fn_ret.blocks[1] # fn_arg.block

\* ------------------------------------------------------------------------
\* Properties of what the backends are sent and what is written (Spec)
\* ------------------------------------------------------------------------
\* C11: an answer whose length differs from the length of the batch is a
\* failure of the backend, so the results that are placed are never
\* mismatched: there is one for every unit, and the k-th is the answer that
\* was given for unit k
C11_MismatchIsFailure ==
    pc \in {"place", "returned"} =>
        /\ Len(translated) = total
        /\ \A k \in 1..Len(translated) : translated[k].of = k - 1

\* s holds a markup span, a match of _TAG_RE
HasTag(s) == TagSearch(s, 0) # -1

\* C12: no string of a batch sent to a backend, NLLB or LibreTranslate, holds
\* a markup span: each span was replaced by its placeholder; and no result
\* that is placed still holds a placeholder
C12_NoMarkupSent ==
    /\ \A k \in 1..Len(Reqs) : \A n \in 1..Len(Reqs[k].q) : ~HasTag(Reqs[k].q[n])
    /\ pc \in {"place", "returned"} =>
           \A k \in 1..Len(translated) :
               ~Contains(translated[k].text, <<"_", "_", "T", "A", "G">>)

\* C13: when the engine selector names nllb or libre only that backend is
\* tried: every callback and request is made by it, and every result that is
\* placed was produced by it, never by another backend or the pass-through
C13_OnlySelectedBackend ==
    \A be \in Selected :
        /\ \A k \in 1..Len(events) : events[k].be = be
        /\ \A k \in 1..Len(translated) : translated[k].by = be

\* ------------------------------------------------------------------------
\* _split_to_n_lines_preserving_words called on its own
\* ------------------------------------------------------------------------
\* the most lines a text is split into
MaxLines == 3

\* fragments of texts to split: words, a space, a line break
SplitFragments == { <<"a">>, <<"b", "c", " ", "d">>, <<" ">>, <<"LF">>, <<"e", "f">> }

\* the target lengths given for n lines: None, or a short or a long target
\* for each line
SplitTargets(n) == {<<>>} \cup [1..n -> {1, 4}]

InitSplit ==
    /\ Idle
    /\ pc = "call"
    /\ \E n \in 2..MaxLines :
           fn_arg \in [text : TextsOf(SplitFragments), n : {n},
                       target_lengths : SplitTargets(n)]
    /\ fn_ret = <<>>

\* _split_to_n_lines_preserving_words(text, n, target_lengths)
SplitToLines ==
    /\ pc = "call"
    /\ fn_ret' = _split_to_n_lines_preserving_words(fn_arg.text, fn_arg.n,
                                                     fn_arg.target_lengths)
    /\ pc' = "done"
    /\ UNCHANGED <<srt_text, engine, batch_size, progress_cb, blocks, parsed, groups,
                   placements, i, done, out_texts, translated, failed, events, result,
                   fn_arg, PROGRESS, progress_key, reported>>

SpecSplit == InitSplit /\ [][SplitToLines]_vars

\* the text with its runs of white space collapsed to one space each
Collapsed(text) == join(<<" ">>, words(text))

\* s without its white space
Squeezed(s) == SelectSeq(s, LAMBDA c : c \notin Whitespace)

\* the offset in the collapsed text t at which line k (1-based) of out starts:
\* after the lines before it and the one space a cut at a space consumes
RECURSIVE LineStart(_, _, _)
LineStart(t, out, k) ==
    IF k = 1 THEN 0
    ELSE LET e == LineStart(t, out, k - 1) + Len(out[k - 1])
         IN  IF e < Len(t) /\ t[e + 1] = " " THEN e + 1 ELSE e

\* the 0-based offsets of the spaces of s
Spaces(s) == {p \in 0..(Len(s) - 1) : s[p + 1] = " "}

\* C14: in the reflow of a text into N >= 2 lines, each of the first N-1 cuts
\* is at a space whenever the text not yet consumed holds one: at the first
\* space at or after the target if there is one, else at the last space
\* before it; a word is cut only when the rest holds no space; the N-th line
\* is all the rest, and the lines hold every character of the collapsed text
\* that is not a space, once and in order
C14_CutsAtSpaces ==
    pc = "done" =>
        LET t == Collapsed(fn_arg.text)
            n == fn_arg.n
            targets == IF fn_arg.target_lengths = <<>>
                       THEN [k \in 1..n |-> Round(Max(1, Len(t)), n)]
                       ELSE fn_arg.target_lengths
        IN  /\ Len(fn_ret) = n
            /\ Squeezed(Concat(fn_ret)) = Squeezed(t)
            /\ fn_ret[n] = From(t, LineStart(t, fn_ret, n))
            /\ \A k \in 1..(n - 1) :
                   LET rest == From(t, LineStart(t, fn_ret, k))
                       target == Min(Len(rest), Max(1, targets[k]))
                       right == {p \in Spaces(rest) : p >= target}
                       cut == Len(fn_ret[k])
                   IN  /\ fn_ret[k] = Slice(rest, 0, cut)
                       /\ Spaces(rest) # {} =>
                              cut = IF right # {} THEN Least(right)
                                    ELSE Greatest(Spaces(rest))
                       /\ Spaces(rest) = {} => cut = target

\* a text whose only space lies before the target was split into two lines:
\* the cut went back to that space
C14_Witness ==
    /\ pc = "done"
    /\ fn_arg.n = 2
    /\ fn_arg.target_lengths = <<4, 4>>
    /\ Spaces(Collapsed(fn_arg.text)) = {1}
    /\ Len(Collapsed(fn_arg.text)) = 4
    /\ Len(fn_ret[1]) = 1
    /\ Len(fn_ret[2]) = 2

\* ------------------------------------------------------------------------
\* _is_allcaps_marker called on its own
\* ------------------------------------------------------------------------
\* fragments of lines: capitals, lowercase letters with and without an accent,
\* punctuation, a digit, a tag, a space, and twenty capitals in a row
MarkerFragments ==
    { <<"A">>, <<"b">>, <<"uuml">>, <<"aring">>, <<"[">>, <<"1">>, <<" ">>,
      <<"<", "i", ">">>, [k \in 1..20 |-> "O"] }

InitMarker ==
    /\ Idle
    /\ pc = "call"
    /\ fn_arg \in TextsOf(MarkerFragments)
    /\ fn_ret = <<>>

\* _is_allcaps_marker(line)
Classify ==
    /\ pc = "call"
    /\ fn_ret' = _is_allcaps_marker(fn_arg)
    /\ pc' = "done"
    /\ UNCHANGED <<srt_text, engine, batch_size, progress_cb, blocks, parsed, groups,
                   placements, i, done, out_texts, translated, failed, events, result,
                   fn_arg, PROGRESS, progress_key, reported>>

SpecMarker == InitMarker /\ [][Classify]_vars

\* the lowercase letters, of any alphabet, among the characters of the model
Lowercase == LowerAscii \cup {"uuml", "aring", "eacute"}

\* C15: a line is a marker exactly when its content, the line without its
\* tags and trimmed, is not empty, has at most 40 characters, holds a letter
\* and holds no lowercase letter of any alphabet
C15_MarkerClassification ==
    pc = "done" =>
        LET txt == strip(RemoveTags(fn_arg))
        IN  fn_ret = (/\ txt # <<>>
                      /\ Len(txt) <= 40
                      /\ \E k \in 1..Len(txt) : txt[k] \in Alpha
                      /\ \A k \in 1..Len(txt) : txt[k] \notin Lowercase)

\* ------------------------------------------------------------------------
\* _split_srt and _join_srt called on their own
\* ------------------------------------------------------------------------
\* fragments of documents: an index, a word, line breaks of both kinds, a
\* blank line break, a space, a byte-order mark
SrtFragments ==
    { <<"1">>, <<"H", "i">>, <<"LF">>, <<"LF", "LF">>, <<"CR", "LF">>, <<" ">>,
      <<"BOM">> }

InitParse ==
    /\ Idle
    /\ pc = "call"
    /\ fn_arg \in TextsOf(SrtFragments)
    /\ fn_ret = <<>>

\* blocks = _split_srt(s)
Parse ==
    /\ pc = "call"
    /\ fn_ret' = [blocks |-> _split_srt(fn_arg), text |-> <<>>, again |-> <<>>]
    /\ pc' = "parsed"
    /\ UNCHANGED <<srt_text, engine, batch_size, progress_cb, blocks, parsed, groups,
                   placements, i, done, out_texts, translated, failed, events, result,
                   fn_arg, PROGRESS, progress_key, reported>>

\* text = _join_srt(blocks), parsed again with _split_srt(text)
Serialize ==
    /\ pc = "parsed"
    /\ fn_ret' = [blocks |-> fn_ret.blocks,
                  text |-> _join_srt(fn_ret.blocks),
                  again |-> _split_srt(_join_srt(fn_ret.blocks))]
    /\ pc' = "done"
    /\ UNCHANGED <<srt_text, engine, batch_size, progress_cb, blocks, parsed, groups,
                   placements, i, done, out_texts, translated, failed, events, result,
                   fn_arg, PROGRESS, progress_key, reported>>

NextParse == Parse \/ Serialize

SpecParse == InitParse /\ [][NextParse]_vars

\* C16: parsing the serialized block list gives the block list back, for
\* every input text, and the serialized document ends with exactly one line
\* break
C16_SerializerInverse ==
    pc = "done" =>
        /\ fn_ret.again = fn_ret.blocks
        /\ Len(RStripSet(fn_ret.text, {"LF"})) = Len(fn_ret.text) - 1

\* ------------------------------------------------------------------------
\* Properties of the lines written for a run of several lines (SpecReflow)
\* ------------------------------------------------------------------------
RECURSIVE SumSeq(_)
SumSeq(ns) == IF ns = <<>> THEN 0 ELSE ns[1] + SumSeq(Tail(ns))

\* the lengths of the source lines of the run
SourceLens == [k \in 1..Len(fn_arg.idxs) |-> Len(fn_arg.block[fn_arg.idxs[k] + 1])]

\* neither the split by the sentinel nor the split by line breaks gave as
\* many parts as the run has lines
FallsToReflow ==
    /\ Len(split(_nfc(fn_arg.text), _SENTINEL)) # Len(fn_arg.idxs)
    /\ Len(NonEmpty(StripAll(SplitLines(_nfc(fn_arg.text))))) # Len(fn_arg.idxs)

\* where a cut with the given target falls in rest: at the first space at or
\* after the target, else at the last space, else at the target
CutFor(rest, target0) ==
    LET target == Min(Len(rest), Max(1, target0))
        right == {p \in Spaces(rest) : p >= target}
    IN  IF right # {} THEN Least(right)
        ELSE IF Spaces(rest) # {} THEN Greatest(Spaces(rest))
        ELSE target

\* C17: when a run falls to the reflow, the target of line k is the length of
\* the collapsed translated text times the share of source line k in the
\* total source length, so the first line is cut where that target, rounded
\* down or up, puts the cut
C17_ProportionalTargets ==
    (pc \in {"split", "placed"} /\ FallsToReflow) =>
        LET t == Collapsed(_nfc(fn_arg.text))
            share == (Len(t) * SourceLens[1]) \div SumSeq(SourceLens)
        IN  Len(fn_ret.parts[1]) \in {CutFor(t, share), CutFor(t, share + 1)}

\* C18: the lines of the cue do not hold the sentinel, and whatever the number
\* of sentinels in the translated text, fewer than, equal to or more than
\* N-1, none of the N lines written for the run holds the sentinel
C18_NoSentinelWritten ==
    pc \in {"split", "placed"} =>
        \A n \in 1..Len(fn_ret.parts) : ~Contains(fn_ret.parts[n], _SENTINEL)

\* ------------------------------------------------------------------------
\* Properties of the returned document (Spec)
\* ------------------------------------------------------------------------
\* C19: whatever the backends answer, also strings with line breaks, no line
\* of the block list holds a line break after placement (from which the
\* returned document is said to parse into blocks of the same shape)
C19_NoLineBreakWritten ==
    pc = "returned" =>
        \A p \in Positions(blocks) : ~Contains(LineAt(blocks, p), <<"LF">>)


\* ------------------------------------------------------------------------
\* The translate endpoint and the progress store (main.py)

\* the batch size the endpoint passes to translate_srt_with_progress
EndpointBatchSize == 64

\* the progress keys of the requests: none, or the key of one job
ProgressKeys == {"", "job1"}

\* _set_progress: nothing without a key; otherwise the entry is replaced, with
\* total not below 0 and done between 0 and total (the time stamp is left to
\* _gc_progress)
_set_progress(store, key, total_lines, completed, finished) ==
    IF key = ""
    THEN store
    ELSE [k \in DOMAIN store \cup {key} |->
             IF k = key
             THEN [total    |-> Max(total_lines, 0),
                   done     |-> Max(Min(completed, total_lines), 0),
                   finished |-> finished]
             ELSE store[k]]

\* _get_progress: the entry of the key, or none
_get_progress(store, key) ==
    IF key \in DOMAIN store THEN <<store[key]>> ELSE <<>>

\* _gc_progress: the entries in `stale` (those older than PROGRESS_TTL_SEC)
\* are removed
_gc_progress(store, stale) ==
    [k \in DOMAIN store \ stale |-> store[k]]

\* on_progress, the callback the endpoint hands to the driver
on_progress(store, total_lines, done_lines) ==
    _set_progress(store, progress_key, total_lines, done_lines, FALSE)

\* a request arrives: any document, engine and progress key of the form
InitEndpoint ==
    /\ srt_text \in SrtInputs
    /\ engine \in Engines
    /\ batch_size = EndpointBatchSize
    /\ progress_cb = TRUE
    /\ pc = "request"
    /\ blocks = <<>>
    /\ parsed = <<>>
    /\ groups = <<>>
    /\ placements = <<>>
    /\ i = 0
    /\ done = 0
    /\ out_texts = <<>>
    /\ translated = <<>>
    /\ failed = {}
    /\ events = <<>>
    /\ result = <<>>
    /\ fn_arg = <<>>
    /\ fn_ret = <<>>
    /\ PROGRESS = <<>>
    /\ progress_key \in ProgressKeys
    /\ reported = 0

\* what the endpoint itself leaves alone: the variables of the driver
driver == <<srt_text, engine, batch_size, progress_cb, blocks, parsed, groups,
            placements, i, done, out_texts, translated, failed, events, result,
            fn_arg, fn_ret>>

\* the language codes are not supported: HTTP 400 before anything is stored
Reject ==
    /\ pc = "request"
    /\ pc' = "rejected"
    /\ UNCHANGED <<driver, PROGRESS, progress_key, reported>>

\* the entry is initialised to 0/0 and the driver is called
Accept ==
    /\ pc = "request"
    /\ PROGRESS' = _set_progress(PROGRESS, progress_key, 0, 0, FALSE)
    /\ pc' = "start"
    /\ UNCHANGED <<driver, progress_key, reported>>

\* a step of translate_srt_with_progress, once on_progress has run for every
\* callback the driver made
Drive ==
    /\ pc \notin {"request", "rejected", "responded"}
    /\ reported = Len(Cbs)
    /\ Next

\* on_progress runs for the callback the driver just made
OnProgress ==
    /\ reported < Len(Cbs)
    /\ PROGRESS' = on_progress(PROGRESS, Cbs[reported + 1].a, Cbs[reported + 1].b)
    /\ reported' = reported + 1
    /\ UNCHANGED <<driver, pc, progress_key>>

\* the driver returned: the entry is marked finished with done = total, and
\* the document is sent back.  When the driver raised, the exception leaves
\* the endpoint and none of this runs.
MarkFinished ==
    /\ pc = "returned"
    /\ reported = Len(Cbs)
    /\ LET entry == _get_progress(PROGRESS, progress_key)
           tot == IF entry = <<>> THEN 0 ELSE entry[1].total
       IN  PROGRESS' = _set_progress(PROGRESS, progress_key, tot, tot, TRUE)
    /\ pc' = "responded"
    /\ UNCHANGED <<driver, progress_key, reported>>

\* an event stream of some client collects the entries that are too old
Gc ==
    /\ PROGRESS # <<>>
    /\ \E stale \in (SUBSET DOMAIN PROGRESS) \ {{}} :
           PROGRESS' = _gc_progress(PROGRESS, stale)
    /\ UNCHANGED <<driver, pc, progress_key, reported>>

NextEndpoint ==
    \/ Reject
    \/ Accept
    \/ Drive
    \/ OnProgress
    \/ MarkFinished
    \/ Gc

SpecEndpoint == InitEndpoint /\ [][NextEndpoint]_vars

\* the request is over: the document was sent back, or the driver raised
Over == pc \in {"responded", "raised"} /\ reported = Len(Cbs)

\* C20: for a request with a progress key, once the request is over, whether
\* the driver returned a document or raised, the entry stored under the key is
\* marked finished with done equal to total, and no callback of the job has
\* put finished back to false.
C20_FinishedWhenOver ==
    (Over /\ progress_key # "") =>
        LET entry == _get_progress(PROGRESS, progress_key)
        IN  \A n \in 1..Len(entry) :
                entry[n].finished /\ entry[n].done = entry[n].total

====
